---- MODULE Spec2Model ----
(***************************************************************************)
(* A state-machine model of the React components of react-docxodus-viewer. *)
(*                                                                         *)
(* DocumentViewer (the library component) is modelled render by render:    *)
(* the variables are its useState cells and its props, every event handler *)
(* and every promise continuation is one action, and the auto-convert      *)
(* effect is the action that runs first after any commit whose state       *)
(* satisfies its condition.  The external engine (docxodus) is opaque: a   *)
(* call stays in flight until it resolves or rejects, and either may       *)
(* happen.                                                                 *)
(***************************************************************************)
EXTENDS Integers, Sequences, FiniteSets, Bags, TLC

VARIABLES
  mounted,               \* which component is on the page
  props,                 \* DocumentViewerProps
  workerSupported,       \* isWorkerSupported()
  hook,                  \* useDocxodus(): "loading" | "ready" | "error"
  worker, workerReady, workerLoading, workerError,
  creating,              \* the current run of the worker effect waits for
                         \* createWorkerDocxodus
  workerRef,             \* workerRef.current: the number of the worker
                         \* held, 0 for null
  made,                  \* workers created so far, numbered 1..made
  terminated,            \* the workers that have been terminated
  stale,                 \* createWorkerDocxodus calls in flight whose run
                         \* of the effect has been cleaned up
  internalFile, internalHtml, internalSettings,
  isConverting, error, fileName, currentPage, totalPages,
  showSettings, viewMode, revisions, isExtractingRevisions,
  documentMetadata,
  convs,                 \* bag of convert() calls that have not settled
  revq,                  \* bag of getRevisions calls in flight
  metaq,                 \* bag of getDocumentMetadata calls in flight
  av,                    \* the useState cells of AnnotationViewer
  avq,                   \* bag of its operations that have not settled
  rp,                    \* the props and useState cells of RevisionPanel
  out,                   \* what the last step called, in order: the
                         \* callbacks of the props and the engine
  last                   \* the last step: [name, file, arg]

dvState == <<internalFile, internalHtml, internalSettings, isConverting,
             error, fileName, currentPage, totalPages, showSettings,
             viewMode, revisions, isExtractingRevisions, documentMetadata>>
wkState == <<worker, workerReady, workerLoading, workerError, creating,
             workerRef, made, terminated, stale>>
dvVars == <<props, workerSupported, wkState, dvState, convs, revq, metaq>>
avVars == <<av, avq>>
vars == <<mounted, hook, dvVars, avVars, rp, out, last>>

----------------------------------------------------------------------------
(* Values *)

Undef == "undefined"
Null == "null"

Files == {"a.docx", "b.docx"}

\* convertToHtml / convertDocxToHtml of the engine, when it succeeds
EngineHtml(f) == IF f = "a.docx" THEN "<html a>" ELSE "<html b>"

\* result.totalPages of PaginatedDocument's onPaginationComplete
PaginationTotal(h) == 2

\* getRevisions of the engine, when it succeeds: a.docx has tracked changes
EngineRevisions(f) == IF f = "a.docx" THEN <<"Inserted", "Deleted">> ELSE <<>>

\* getDocumentMetadata of the engine, when it succeeds: the viewer only
\* tells a metadata object from null, so one value stands for all
EngineMetadata(call) == "metadata"

\* What an engine call can reject with: an Error object, or any other value
ErrorObjects == {"Error(boom)", "Error(oops)"}
Thrown == {"Error(boom)", "oops"}

\* String(v) of a thrown value that is not an Error
StringOf(v) == v

\* The message AnnotationViewer gives the Error it makes itself
FailedToLoad == "Failed to load document"

\* new Error(message)
NewError(m) ==
  CASE m = "boom" -> "Error(boom)"
    [] m = "oops" -> "Error(oops)"
    [] m = FailedToLoad -> "Error(Failed to load document)"

\* error.message
Message(e) ==
  CASE e = "Error(boom)" -> "boom"
    [] e = "Error(oops)" -> "oops"
    [] e = "Error(Failed to load document)" -> FailedToLoad

\* A variant that passes the thrown value on as it is
WrapErrorUnwrapped(v) == v

\* err instanceof Error ? err : new Error(String(err))
WrapError(v) == IF v \in ErrorObjects THEN v ELSE NewError(StringOf(v))

----------------------------------------------------------------------------
(* Numbers.  A JavaScript number is an IEEE 754 double.  The doubles the   *)
(* zoom scale takes lie in [0.125, 4) and are whole multiples of 2^-56;    *)
(* the double m * 2^-56 is written <<m \div Limb, m % Limb>>.  A sum or a   *)
(* difference is computed exactly and then rounded to the 53 significant   *)
(* bits of a double, ties to even.                                         *)

Limb == 2^28

\* The literals of the source, and parseFloat of the zoom options
Double(lit) ==
  CASE lit = "0.1" -> <<26843545, 161061274>>
    [] lit = "0.3" -> <<80530636, 214748364>>
    [] lit = "0.5" -> <<134217728, 0>>
    [] lit = "0.75" -> <<201326592, 0>>
    [] lit = "0.8" -> <<214748364, 214748368>>
    [] lit = "0.9" -> <<241591910, 107374184>>
    [] lit = "1" -> <<268435456, 0>>
    [] lit = "1.25" -> <<335544320, 0>>
    [] lit = "1.5" -> <<402653184, 0>>
    [] lit = "1.95" -> <<523449139, 53687088>>
    [] lit = "2" -> <<536870912, 0>>

\* a < b and a <= b
Less(a, b) == a[1] < b[1] \/ (a[1] = b[1] /\ a[2] < b[2])
Leq(a, b) == a = b \/ Less(a, b)

\* The exact sum and the exact difference (a >= b)
ExactSum(a, b) ==
  LET lo == a[2] + b[2] IN <<a[1] + b[1] + lo \div Limb, lo % Limb>>
ExactDifference(a, b) ==
  LET lo == a[2] - b[2]
  IN  IF lo >= 0 THEN <<a[1] - b[1], lo>> ELSE <<a[1] - b[1] - 1, lo + Limb>>

\* The distance between neighbouring doubles around m, in units of 2^-56
Ulp(m) ==
  IF m[1] >= 2 * Limb THEN 32
  ELSE IF m[1] >= Limb THEN 16
  ELSE IF m[1] >= Limb \div 2 THEN 8
  ELSE IF m[1] >= Limb \div 4 THEN 4
  ELSE 2

\* Round to nearest, ties to even
RoundToDouble(m) ==
  LET u == Ulp(m)
      r == m[2] % u
      down == <<m[1], m[2] - r>>
      up == ExactSum(down, <<0, u>>)
  IN  IF 2 * r < u THEN down
      ELSE IF 2 * r > u THEN up
      ELSE IF ((m[2] - r) \div u) % 2 = 0 THEN down ELSE up

\* a + b and a - b of JavaScript
Plus(a, b) == RoundToDouble(ExactSum(a, b))
Minus(a, b) == RoundToDouble(ExactDifference(a, b))

\* Math.min and Math.max
MathMin(a, b) == IF Less(b, a) THEN b ELSE a
MathMax(a, b) == IF Less(a, b) THEN b ELSE a

----------------------------------------------------------------------------
(* Settings.  A ViewerSettings value is a function from field names to     *)
(* values; a Partial<ViewerSettings> is one on a subset of the fields.     *)
(* Three of the fifteen fields are kept: a number and two flags.           *)

DEFAULT_SETTINGS ==
  [paginationScale |-> Double("0.8"), showPageNumbers |-> TRUE,
   renderTrackedChanges |-> FALSE]

EmptyPartial == [k \in {} |-> 0]

\* { ...a, ...b }
Overlay(a, b) ==
  [k \in DOMAIN a \cup DOMAIN b |-> IF k \in DOMAIN b THEN b[k] ELSE a[k]]

\* The values the props settings and defaultSettings take when given; an
\* optional object is <<>> when undefined and <<object>> when given
SettingsProps == {[renderTrackedChanges |-> TRUE]}
DefaultSettingsProps == {[paginationScale |-> Double("1")]}

mergedDefaultsOf(p) ==
  Overlay(DEFAULT_SETTINGS,
          IF Len(p.defaultSettings) = 0 THEN EmptyPartial
          ELSE p.defaultSettings[1])

mergedDefaults == mergedDefaultsOf(props)

----------------------------------------------------------------------------
(* Values derived at each render *)

controlledFile == props.file
controlledHtml == props.html
controlledSettings == props.settings

file == IF controlledFile # Undef THEN controlledFile ELSE internalFile
html == IF controlledHtml # Undef THEN controlledHtml ELSE internalHtml
settings ==
  IF Len(controlledSettings) > 0
  THEN Overlay(mergedDefaults, controlledSettings[1])
  ELSE internalSettings

isReady == IF props.useWorker THEN workerReady ELSE hook = "ready"
isLoading == IF props.useWorker THEN workerLoading ELSE hook = "loading"
initError == IF props.useWorker THEN workerError # Null ELSE hook = "error"
isProcessing == isConverting \/ isLoading
hasRevisions == Len(revisions) > 0

\* JavaScript truthiness of a File | null and of a string | null
Truthy(x) == x \notin {Null, Undef, ""}

\* A variant that never goes through the worker
ViaDirect == "direct"

\* useWorker && worker ? worker.<op> : <direct call>
Via == IF props.useWorker /\ worker # Null THEN "worker" ELSE "direct"

----------------------------------------------------------------------------
(* DocumentViewer: what a render shows (lines 515-756) *)

\* disabled={settings.paginationScale <= 0.3} of the zoom-out button and
\* disabled={settings.paginationScale >= 2.0} of the zoom-in button
ZoomOutDisabled == Leq(settings.paginationScale, Double("0.3"))
ZoomInDisabled == Leq(Double("2"), settings.paginationScale)

\* The children of the toolbar
ToolbarElements ==
  {"file-input"}
  \cup (IF fileName # "" THEN {"clear"} ELSE {})
  \cup (IF props.showRevisionsTab /\ hasRevisions /\ Truthy(html)
        THEN {"view-tabs"} ELSE {})
  \cup (IF props.showRevisionsTab /\ isExtractingRevisions
        THEN {"extracting-indicator"} ELSE {})
  \cup (IF Truthy(html) /\ totalPages > 0 /\ viewMode = "document"
        THEN {"page-controls", "zoom-controls"}
             \cup (IF ZoomOutDisabled THEN {} ELSE {"zoom-out-enabled"})
             \cup (IF ZoomInDisabled THEN {} ELSE {"zoom-in-enabled"})
        ELSE {})
  \cup (IF props.showSettingsButton THEN {"settings-button"} ELSE {})

\* The children of the content area
ContentElements ==
  (IF initError THEN {"init-error"} ELSE {})
  \cup (IF ~initError /\ (isLoading \/ isConverting)
        THEN (IF documentMetadata # Null /\ isConverting
              THEN {"page-placeholders"} ELSE {"spinner"})
        ELSE {})
  \cup (IF ~isLoading /\ ~initError /\ ~Truthy(html) /\ ~isConverting
           /\ ~Truthy(file)
        THEN {"placeholder"} ELSE {})
  \cup (IF error # Null /\ ~isConverting THEN {"error"} ELSE {})
  \cup (IF viewMode = "document" /\ Truthy(html) /\ ~isConverting
        THEN {"pages"} ELSE {})
  \cup (IF viewMode = "revisions" /\ Truthy(html) /\ ~isConverting
        THEN {"revision-panel"} ELSE {})

\* A variant that renders the modal before everything else
RootChildrenModalFirst ==
  (IF showSettings THEN <<"settings-modal">> ELSE <<>>)
  \o (IF props.toolbar = "top" THEN <<"toolbar">> ELSE <<>>)
  \o <<"content">>
  \o (IF props.toolbar = "bottom" THEN <<"toolbar">> ELSE <<>>)

\* A variant that renders a bottom toolbar where the top one goes
RootChildrenToolbarFirst ==
  (IF props.toolbar \in {"top", "bottom"} THEN <<"toolbar">> ELSE <<>>)
  \o <<"content">>
  \o (IF showSettings THEN <<"settings-modal">> ELSE <<>>)

\* The children of the root element, in order
RootChildren ==
  (IF props.toolbar = "top" THEN <<"toolbar">> ELSE <<>>)
  \o <<"content">>
  \o (IF props.toolbar = "bottom" THEN <<"toolbar">> ELSE <<>>)
  \o (IF showSettings THEN <<"settings-modal">> ELSE <<>>)

\* Everything on the page
Rendered ==
  (IF \E i \in 1..Len(RootChildren) : RootChildren[i] = "toolbar"
   THEN ToolbarElements ELSE {})
  \cup ContentElements

\* The messages m shown as "Error: m"
ErrorMessagesShown ==
  IF "error" \in Rendered THEN {Message(error)} ELSE {}

ToolbarShown == \E i \in 1..Len(RootChildren) : RootChildren[i] = "toolbar"
TabsShown == "view-tabs" \in Rendered
\* PaginatedDocument is rendered
PagesShown == "pages" \in Rendered

----------------------------------------------------------------------------
(* Bounds *)

\* engine calls of convert() and extractRevisions() in flight at once
MaxInFlight == 1
\* createWorkerDocxodus calls of one viewer
MaxWorkers == 2
\* getDocumentMetadata calls in flight at once
MaxMetadata == 1

InFlightRoom == BagCardinality(convs) + BagCardinality(revq) < MaxInFlight

----------------------------------------------------------------------------
(* The state after the first render and its effects *)

NoOut == <<>>

\* A call of a callback prop, and the calls of one kind the last step made
Callback(kind, arg) == [kind |-> kind, arg |-> arg]
Calls(kind) == SelectSeq(out, LAMBDA e : e.kind = kind)

\* The props when none is given (lines 74-79).  Two callback props are
\* called inside a try block, where what they throw is caught as if the
\* engine had thrown it: each of them either returns or throws.  The other
\* callbacks are taken to return.
DefaultProps ==
  [file |-> Undef, html |-> Undef, settings |-> <<>>,
   defaultSettings |-> <<>>, useWorker |-> TRUE, showRevisionsTab |-> TRUE,
   toolbar |-> "top", showSettingsButton |-> TRUE, wasmBasePath |-> Undef,
   onConversionComplete |-> "returns", onRevisionsExtracted |-> "returns"]

PreHtml == "<html pre>"
GivenSettings == CHOOSE x \in SettingsProps : TRUE
GivenDefaults == CHOOSE x \in DefaultSettingsProps : TRUE

\* The configurations a viewer is mounted with.  Every prop takes each of
\* its values in one of them at least, and the props that decide a path
\* together (file with html, useWorker with isWorkerSupported(), toolbar
\* with showRevisionsTab, settings with defaultSettings) are combined.
\* Only the file prop changes after the mount (setFileProp).
Configs ==
  {[props |-> DefaultProps, supported |-> TRUE],
   [props |-> [DefaultProps EXCEPT !.defaultSettings = <<GivenDefaults>>],
    supported |-> FALSE],
   [props |-> [DefaultProps EXCEPT !.useWorker = FALSE,
                                   !.toolbar = "bottom",
                                   !.showSettingsButton = FALSE],
    supported |-> TRUE],
   [props |-> [DefaultProps EXCEPT !.useWorker = FALSE,
                                   !.showRevisionsTab = FALSE,
                                   !.showSettingsButton = FALSE],
    supported |-> TRUE],
   [props |-> [DefaultProps EXCEPT !.file = Null,
                                   !.showSettingsButton = FALSE],
    supported |-> TRUE],
   [props |-> [DefaultProps EXCEPT !.html = PreHtml,
                                   !.showSettingsButton = FALSE],
    supported |-> TRUE],
   [props |-> [DefaultProps EXCEPT !.html = PreHtml, !.file = Null,
                                   !.settings = <<GivenSettings>>,
                                   !.defaultSettings = <<GivenDefaults>>],
    supported |-> TRUE],
   [props |-> [DefaultProps EXCEPT !.showRevisionsTab = FALSE,
                                   !.settings = <<GivenSettings>>,
                                   !.showSettingsButton = FALSE],
    supported |-> TRUE],
   [props |-> [DefaultProps EXCEPT !.toolbar = "none", !.file = Null],
    supported |-> TRUE],
   [props |-> [DefaultProps EXCEPT !.onConversionComplete = "throws",
                                   !.showSettingsButton = FALSE],
    supported |-> TRUE],
   [props |-> [DefaultProps EXCEPT !.onRevisionsExtracted = "throws",
                                   !.useWorker = FALSE,
                                   !.showSettingsButton = FALSE],
    supported |-> TRUE],
   [props |-> [DefaultProps EXCEPT !.toolbar = "none", !.file = Null,
                                   !.showRevisionsTab = FALSE,
                                   !.useWorker = FALSE],
    supported |-> TRUE]}

DVInitWith(c) ==
  /\ props = c.props
  /\ workerSupported = c.supported
  \* the worker effect of the first render (lines 114-139)
  /\ worker = Null
  /\ workerReady = FALSE
  /\ workerError = Null
  /\ workerLoading = (props.useWorker /\ workerSupported)
  /\ creating = (props.useWorker /\ workerSupported)
  /\ workerRef = 0
  /\ made = 0
  /\ terminated = {}
  /\ stale = 0
  /\ internalFile = Null
  /\ internalHtml = Null
  /\ internalSettings = mergedDefaults
  /\ isConverting = FALSE
  /\ error = Null
  /\ fileName = ""
  /\ currentPage = 1
  /\ totalPages = 0
  /\ showSettings = FALSE
  /\ viewMode = "document"
  /\ revisions = <<>>
  /\ isExtractingRevisions = FALSE
  /\ documentMetadata = Null
  /\ convs = EmptyBag
  /\ revq = EmptyBag
  /\ metaq = EmptyBag

DVInit == \E c \in Configs : DVInitWith(c)

----------------------------------------------------------------------------
(* DocumentViewer: convert and the effect that calls it *)

DV == mounted = "DocumentViewer"

\* A call of the engine: through the worker proxy or direct, by a closure
\* that read useWorker
EngineCall(op, via, f, useWorker) ==
  [kind |-> "engine", op |-> op, via |-> via, file |-> f,
   useWorker |-> useWorker]

\* The call convert(f) leaves in flight.  Without a worker it first waits
\* for two animation frames (stage "raf") and calls the engine after them.
\* retry: started by the effect as the step right after a conversion of
\* the same file has failed, so with no user action or prop change between.
NewConv(f, trigger) ==
  [file |-> f,
   stage |-> IF props.useWorker THEN "engine" ELSE "raf",
   via |-> Via,
   useWorker |-> props.useWorker,
   retry |-> (trigger = "effect" /\ last.name = "convertReject"
                                  /\ last.file = f)]

\* A variant that calls the engine before it calls onConversionStart
convertEngineFirst(f, trigger, o) ==
  IF isReady
  THEN /\ isConverting' = TRUE
       /\ error' = Null
       /\ revisions' = <<>>
       /\ viewMode' = "document"
       /\ convs' = convs (+) SetToBag({NewConv(f, trigger)})
       /\ out' = o \o (IF props.useWorker
                        THEN <<EngineCall("convert", Via, f, TRUE)>>
                        ELSE <<>>)
                    \o <<Callback("onConversionStart", "")>>
  ELSE /\ UNCHANGED <<isConverting, error, revisions, viewMode, convs>>
       /\ out' = o

\* convert, up to its first await; o is what the caller has called so far
convert(f, trigger, o) ==
  IF isReady
  THEN /\ isConverting' = TRUE
       /\ error' = Null
       /\ revisions' = <<>>
       /\ viewMode' = "document"
       /\ convs' = convs (+) SetToBag({NewConv(f, trigger)})
       /\ out' = o \o <<Callback("onConversionStart", "")>>
                    \o (IF props.useWorker
                        THEN <<EngineCall("convert", Via, f, TRUE)>>
                        ELSE <<>>)
  ELSE /\ UNCHANGED <<isConverting, error, revisions, viewMode, convs>>
       /\ out' = o

\* The condition of the auto-convert effect
AutoConvertCond ==
  /\ isReady
  /\ Truthy(file)
  /\ ~Truthy(html)
  /\ ~isConverting
  /\ controlledHtml = Undef

\* The effect is due: React runs it before it handles anything else
EffectDue == DV /\ AutoConvertCond /\ InFlightRoom

\* A handler or a continuation can run
Idle == DV /\ ~EffectDue

autoConvert ==
  /\ EffectDue
  /\ convert(file, "effect", NoOut)
  /\ last' = [name |-> "autoConvert", file |-> file, arg |-> ""]
  /\ UNCHANGED <<mounted, rp, avVars, props, workerSupported, hook, wkState,
                 internalFile, internalHtml, internalSettings, fileName,
                 currentPage, totalPages, showSettings,
                 isExtractingRevisions, documentMetadata,
                 revq, metaq>>

\* The engine call of a conversion that waited for its animation frames
rafFire ==
  \E c \in BagToSet(convs) :
    /\ Idle
    /\ c.stage = "raf"
    /\ convs' = (convs (-) SetToBag({c}))
                  (+) SetToBag({[c EXCEPT !.stage = "engine"]})
    /\ out' = <<EngineCall("convert", c.via, c.file, c.useWorker)>>
    /\ last' = [name |-> "rafFire", file |-> c.file, arg |-> ""]
    /\ UNCHANGED <<mounted, rp, avVars, props, workerSupported, hook, wkState, dvState,
                   revq, metaq>>

\* A variant that does not read showRevisionsTab
extractRevisionsAlways(c, o) ==
  /\ isExtractingRevisions' = TRUE
  /\ revq' = revq (+) SetToBag({[file |-> c.file, via |-> c.via]})
  /\ out' = Append(o, EngineCall("getRevisions", c.via, c.file,
                                 c.useWorker))

\* extractRevisions, up to its await, as convert calls it; o as in convert
extractRevisions(c, o) ==
  IF props.showRevisionsTab
  THEN /\ isExtractingRevisions' = TRUE
       /\ revq' = revq (+) SetToBag({[file |-> c.file, via |-> c.via]})
       /\ out' = Append(o, EngineCall("getRevisions", c.via, c.file,
                                      c.useWorker))
  ELSE /\ UNCHANGED <<isExtractingRevisions, revq>>
       /\ out' = o

\* The engine resolves a conversion: convert's try block and finally, and
\* its catch block when onConversionComplete throws v
convertResolve ==
  \E c \in BagToSet(convs), v \in Thrown :
    /\ Idle
    /\ c.stage = "engine"
    /\ convs' = convs (-) SetToBag({c})
    /\ internalHtml' = IF controlledHtml = Undef THEN EngineHtml(c.file)
                       ELSE internalHtml
    /\ IF props.onConversionComplete = "returns"
       THEN /\ extractRevisions(c, <<Callback("onConversionComplete",
                                              EngineHtml(c.file))>>)
            /\ last' = [name |-> "convertResolve", file |-> c.file,
                        arg |-> ""]
            /\ UNCHANGED error
       ELSE /\ error' = WrapError(v)
            /\ out' = <<Callback("onConversionComplete", EngineHtml(c.file)),
                        Callback("onError", WrapError(v))>>
            /\ last' = [name |-> "convertResolve", file |-> c.file,
                        arg |-> v]
            /\ UNCHANGED <<isExtractingRevisions, revq>>
    /\ isConverting' = FALSE
    /\ UNCHANGED <<mounted, rp, avVars, props, workerSupported, hook, wkState,
                   internalFile, internalSettings, fileName,
                   currentPage, totalPages, showSettings, viewMode,
                   revisions, documentMetadata, metaq>>

\* The engine rejects a conversion with v: convert's catch and finally
convertReject ==
  \E c \in BagToSet(convs), v \in Thrown :
    /\ Idle
    /\ c.stage = "engine"
    /\ convs' = convs (-) SetToBag({c})
    /\ error' = WrapError(v)
    /\ out' = <<Callback("onError", WrapError(v))>>
    /\ isConverting' = FALSE
    /\ last' = [name |-> "convertReject", file |-> c.file, arg |-> v]
    /\ UNCHANGED <<mounted, rp, avVars, props, workerSupported, hook, wkState,
                   internalFile, internalHtml, internalSettings, fileName,
                   currentPage, totalPages, showSettings, viewMode,
                   revisions, isExtractingRevisions, documentMetadata,
                   revq, metaq>>

----------------------------------------------------------------------------
(* DocumentViewer: revision extraction and metadata *)

\* A variant that stores the revisions and tells nobody
revisionsResolveSilent ==
  \E r \in BagToSet(revq) :
    /\ Idle
    /\ revq' = revq (-) SetToBag({r})
    /\ revisions' = IF props.onRevisionsExtracted = "returns"
                    THEN EngineRevisions(r.file) ELSE <<>>
    /\ out' = NoOut
    /\ isExtractingRevisions' = FALSE
    /\ last' = [name |-> "revisionsResolve", file |-> r.file, arg |-> ""]
    /\ UNCHANGED <<mounted, rp, avVars, props, workerSupported, hook, wkState,
                   internalFile, internalHtml, internalSettings,
                   isConverting, error, fileName, currentPage, totalPages,
                   showSettings, viewMode, documentMetadata,
                   convs, metaq>>

\* getRevisions resolves: the rest of extractRevisions' try, its catch
\* when onRevisionsExtracted throws, and finally
revisionsResolve ==
  \E r \in BagToSet(revq) :
    /\ Idle
    /\ revq' = revq (-) SetToBag({r})
    /\ revisions' = IF props.onRevisionsExtracted = "returns"
                    THEN EngineRevisions(r.file) ELSE <<>>
    /\ out' = <<Callback("onRevisionsExtracted", EngineRevisions(r.file))>>
    /\ isExtractingRevisions' = FALSE
    /\ last' = [name |-> "revisionsResolve", file |-> r.file, arg |-> ""]
    /\ UNCHANGED <<mounted, rp, avVars, props, workerSupported, hook, wkState,
                   internalFile, internalHtml, internalSettings,
                   isConverting, error, fileName, currentPage, totalPages,
                   showSettings, viewMode, documentMetadata,
                   convs, metaq>>

\* A variant that reports the failure as convert reports its own
revisionsRejectReported ==
  \E r \in BagToSet(revq), v \in Thrown :
    /\ Idle
    /\ revq' = revq (-) SetToBag({r})
    /\ revisions' = <<>>
    /\ error' = WrapError(v)
    /\ out' = <<Callback("onError", WrapError(v))>>
    /\ isExtractingRevisions' = FALSE
    /\ last' = [name |-> "revisionsReject", file |-> r.file, arg |-> v]
    /\ UNCHANGED <<mounted, rp, avVars, props, workerSupported, hook, wkState,
                   internalFile, internalHtml, internalSettings,
                   isConverting, fileName, currentPage, totalPages,
                   showSettings, viewMode, documentMetadata,
                   convs, metaq>>

\* getRevisions rejects: extractRevisions' catch, and finally
revisionsReject ==
  \E r \in BagToSet(revq), v \in Thrown :
    /\ Idle
    /\ revq' = revq (-) SetToBag({r})
    /\ revisions' = <<>>
    /\ out' = NoOut
    /\ isExtractingRevisions' = FALSE
    /\ last' = [name |-> "revisionsReject", file |-> r.file, arg |-> v]
    /\ UNCHANGED <<mounted, rp, avVars, props, workerSupported, hook, wkState,
                   internalFile, internalHtml, internalSettings,
                   isConverting, error, fileName, currentPage, totalPages,
                   showSettings, viewMode, documentMetadata,
                   convs, metaq>>

\* getDocumentMetadata resolves: the rest of fetchMetadata's try
metadataResolve ==
  \E m \in BagToSet(metaq) :
    /\ Idle
    /\ metaq' = metaq (-) SetToBag({m})
    /\ documentMetadata' = EngineMetadata(m)
    /\ out' = NoOut
    /\ last' = [name |-> "metadataResolve", file |-> "", arg |-> ""]
    /\ UNCHANGED <<mounted, rp, avVars, props, workerSupported, hook, wkState,
                   internalFile, internalHtml, internalSettings,
                   isConverting, error, fileName, currentPage, totalPages,
                   showSettings, viewMode, revisions,
                   isExtractingRevisions, convs, revq>>

\* getDocumentMetadata rejects: fetchMetadata's catch
metadataReject ==
  \E m \in BagToSet(metaq), v \in Thrown :
    /\ Idle
    /\ metaq' = metaq (-) SetToBag({m})
    /\ documentMetadata' = Null
    /\ out' = NoOut
    /\ last' = [name |-> "metadataReject", file |-> "", arg |-> v]
    /\ UNCHANGED <<mounted, rp, avVars, props, workerSupported, hook, wkState,
                   internalFile, internalHtml, internalSettings,
                   isConverting, error, fileName, currentPage, totalPages,
                   showSettings, viewMode, revisions,
                   isExtractingRevisions, convs, revq>>

----------------------------------------------------------------------------
(* DocumentViewer: the toolbar's file input and clear button *)

\* handleFileChange with the file f selected; fetchMetadata up to its await
handleFileChange ==
  \E f \in Files :
    /\ Idle
    /\ ToolbarShown
    /\ ~isProcessing
    /\ BagCardinality(metaq) < MaxMetadata
    /\ (isReady /\ controlledHtml = Undef) => InFlightRoom
    /\ fileName' = f
    /\ currentPage' = 1
    /\ totalPages' = 0
    /\ documentMetadata' = Null
    /\ internalFile' = IF controlledFile = Undef THEN f ELSE internalFile
    /\ internalHtml' = IF controlledFile = Undef THEN Null ELSE internalHtml
    /\ metaq' = metaq (+) SetToBag({[via |-> Via]})
    /\ LET o == <<Callback("onFileChange", f),
                   EngineCall("getDocumentMetadata", Via, f,
                              props.useWorker)>>
       IN  IF isReady /\ controlledHtml = Undef
           THEN convert(f, "select", o)
           ELSE /\ error' = Null
                /\ revisions' = <<>>
                /\ viewMode' = "document"
                /\ out' = o
                /\ UNCHANGED <<isConverting, convs>>
    /\ last' = [name |-> "handleFileChange", file |-> f, arg |-> ""]
    /\ UNCHANGED <<mounted, rp, avVars, props, workerSupported, hook, wkState,
                   internalSettings, showSettings, isExtractingRevisions,
                   revq>>

\* A variant that leaves the view mode as it is
handleClearKeepsView ==
  /\ Idle
  /\ ToolbarShown
  /\ fileName # ""
  /\ ~isProcessing
  /\ internalFile' = IF controlledFile = Undef THEN Null ELSE internalFile
  /\ internalHtml' = IF controlledHtml = Undef THEN Null ELSE internalHtml
  /\ error' = Null
  /\ fileName' = ""
  /\ currentPage' = 1
  /\ totalPages' = 0
  /\ revisions' = <<>>
  /\ documentMetadata' = Null
  /\ out' = <<Callback("onFileChange", Null)>>
  /\ last' = [name |-> "handleClear", file |-> "", arg |-> ""]
  /\ UNCHANGED <<mounted, rp, avVars, props, workerSupported, hook, wkState,
                 internalSettings, isConverting, showSettings, viewMode,
                 isExtractingRevisions, convs, revq, metaq>>

handleClear ==
  /\ Idle
  /\ ToolbarShown
  /\ fileName # ""
  /\ ~isProcessing
  /\ internalFile' = IF controlledFile = Undef THEN Null ELSE internalFile
  /\ internalHtml' = IF controlledHtml = Undef THEN Null ELSE internalHtml
  /\ error' = Null
  /\ fileName' = ""
  /\ currentPage' = 1
  /\ totalPages' = 0
  /\ revisions' = <<>>
  /\ viewMode' = "document"
  /\ documentMetadata' = Null
  /\ out' = <<Callback("onFileChange", Null)>>
  /\ last' = [name |-> "handleClear", file |-> "", arg |-> ""]
  /\ UNCHANGED <<mounted, rp, avVars, props, workerSupported, hook, wkState,
                 internalSettings, isConverting, showSettings,
                 isExtractingRevisions, convs, revq, metaq>>

----------------------------------------------------------------------------
(* DocumentViewer: settings *)

\* The settings button of the toolbar
openSettings ==
  /\ Idle
  /\ ToolbarShown
  /\ props.showSettingsButton
  /\ ~showSettings
  /\ showSettings' = TRUE
  /\ out' = NoOut
  /\ last' = [name |-> "openSettings", file |-> "", arg |-> ""]
  /\ UNCHANGED <<mounted, rp, avVars, props, workerSupported, hook, wkState,
                 internalFile, internalHtml, internalSettings, isConverting,
                 error, fileName, currentPage, totalPages, viewMode,
                 revisions, isExtractingRevisions, documentMetadata,
                 convs, revq, metaq>>

\* The close button of the modal, or a click on the overlay around it
closeSettings ==
  /\ Idle
  /\ showSettings
  /\ showSettings' = FALSE
  /\ out' = NoOut
  /\ last' = [name |-> "closeSettings", file |-> "", arg |-> ""]
  /\ UNCHANGED <<mounted, rp, avVars, props, workerSupported, hook, wkState,
                 internalFile, internalHtml, internalSettings, isConverting,
                 error, fileName, currentPage, totalPages, viewMode,
                 revisions, isExtractingRevisions, documentMetadata,
                 convs, revq, metaq>>

\* A click inside the modal that hits none of its controls: the modal
\* stops it, so the overlay's handler does not run
clickModalBody ==
  /\ Idle
  /\ showSettings
  /\ out' = NoOut
  /\ last' = [name |-> "clickModalBody", file |-> "", arg |-> ""]
  /\ UNCHANGED <<mounted, rp, avVars, hook, dvVars>>

\* reconvert, then setShowSettings(false): the Apply & Close button
applyAndClose ==
  /\ Idle
  /\ showSettings
  /\ (Truthy(file) /\ isReady) => InFlightRoom
  /\ IF Truthy(file)
     THEN /\ internalHtml' = IF controlledHtml = Undef THEN Null
                             ELSE internalHtml
          /\ convert(file, "apply", NoOut)
     ELSE /\ out' = NoOut
          /\ UNCHANGED <<internalHtml, isConverting, error, revisions,
                         viewMode, convs>>
  /\ showSettings' = FALSE
  /\ last' = [name |-> "applyAndClose", file |-> "", arg |-> ""]
  /\ UNCHANGED <<mounted, rp, avVars, props, workerSupported, hook, wkState,
                 internalFile, internalSettings, fileName, currentPage,
                 totalPages, isExtractingRevisions, documentMetadata,
                 revq, metaq>>

\* A variant that overlays the update on the defaults
newSettingsFromDefaults(u) == Overlay(mergedDefaults, u)

\* What updateSettings stores and reports for the update u
newSettings(u) == Overlay(settings, u)

updateSettings(u) ==
  /\ internalSettings' = IF Len(controlledSettings) = 0 THEN newSettings(u)
                         ELSE internalSettings
  /\ out' = <<Callback("onSettingsChange", newSettings(u))>>
  /\ last' = [name |-> "updateSettings", file |-> "", arg |-> u]
  /\ UNCHANGED <<mounted, rp, avVars, props, workerSupported, hook, wkState,
                 internalFile, internalHtml, isConverting, error, fileName,
                 currentPage, totalPages, showSettings, viewMode, revisions,
                 isExtractingRevisions, documentMetadata,
                 convs, revq, metaq>>

\* A checkbox of the modal: its new value is the opposite of the shown one
toggleSetting ==
  \E k \in {"showPageNumbers", "renderTrackedChanges"} :
    /\ Idle
    /\ showSettings
    /\ updateSettings([x \in {k} |-> ~settings[k]])

\* The values of the options of the zoom select
ZoomOptions == {"0.5", "0.75", "0.8", "0.9", "1", "1.25", "1.5", "2"}

\* parseFloat of the value of an option
parseFloat(v) == Double(v)

\* A variant of zoom-in that does not clamp
zoomInScaleUnclamped(s) == Plus(s, Double("0.1"))

\* The scales the three zoom handlers ask for
zoomInScale(s) == MathMin(Plus(s, Double("0.1")), Double("2"))
zoomOutScale(s) == MathMax(Minus(s, Double("0.1")), Double("0.3"))
zoomChangeScale(value) ==
  MathMax(Double("0.3"), MathMin(Double("2"), value))

handleZoomIn ==
  /\ Idle
  /\ "zoom-in-enabled" \in Rendered
  /\ updateSettings(
       [paginationScale |-> zoomInScale(settings.paginationScale)])

handleZoomOut ==
  /\ Idle
  /\ "zoom-out-enabled" \in Rendered
  /\ updateSettings(
       [paginationScale |-> zoomOutScale(settings.paginationScale)])

handleZoomChange ==
  \E v \in ZoomOptions :
    /\ Idle
    /\ "zoom-controls" \in Rendered
    /\ updateSettings([paginationScale |-> zoomChangeScale(parseFloat(v))])

----------------------------------------------------------------------------
(* DocumentViewer: view tabs and pages *)

setViewMode ==
  \E m \in {"document", "revisions"} :
    /\ Idle
    /\ TabsShown
    /\ m # viewMode
    /\ viewMode' = m
    /\ out' = NoOut
    /\ last' = [name |-> "setViewMode", file |-> "", arg |-> m]
    /\ UNCHANGED <<mounted, rp, avVars, props, workerSupported, hook, wkState,
                   internalFile, internalHtml, internalSettings,
                   isConverting, error, fileName, currentPage, totalPages,
                   showSettings, revisions, isExtractingRevisions,
                   documentMetadata, convs, revq, metaq>>

\* onPaginationComplete of PaginatedDocument with a new total, and the
\* effect that tells the parent of it (lines 394-399)
onPaginationComplete ==
  /\ Idle
  /\ PagesShown
  /\ totalPages # PaginationTotal(html)
  /\ totalPages' = PaginationTotal(html)
  /\ out' = <<Callback("onPageChange",
                       <<currentPage, PaginationTotal(html)>>)>>
  /\ last' = [name |-> "onPaginationComplete", file |-> "", arg |-> ""]
  /\ UNCHANGED <<mounted, rp, avVars, props, workerSupported, hook, wkState,
                 internalFile, internalHtml, internalSettings, isConverting,
                 error, fileName, currentPage, showSettings, viewMode,
                 revisions, isExtractingRevisions, documentMetadata,
                 convs, revq, metaq>>

\* onPageVisible of PaginatedDocument with another page p, and the effect
\* that tells the parent of it again (lines 394-399)
handlePageVisible ==
  \E p \in 1..totalPages :
    /\ Idle
    /\ PagesShown
    /\ p # currentPage
    /\ currentPage' = p
    /\ out' = <<Callback("onPageChange", <<p, totalPages>>),
                Callback("onPageChange", <<p, totalPages>>)>>
    /\ last' = [name |-> "handlePageVisible", file |-> "", arg |-> ""]
    /\ UNCHANGED <<mounted, rp, avVars, props, workerSupported, hook, wkState,
                   internalFile, internalHtml, internalSettings,
                   isConverting, error, fileName, totalPages, showSettings,
                   viewMode, revisions, isExtractingRevisions,
                   documentMetadata, convs, revq, metaq>>

----------------------------------------------------------------------------
(* DocumentViewer: its environment *)

\* The parent renders the viewer with another file prop (controlled mode)
setFileProp ==
  \E f \in Files \cup {Null} :
    /\ Idle
    /\ controlledFile # Undef
    /\ f # controlledFile
    /\ props' = [props EXCEPT !.file = f]
    /\ out' = NoOut
    /\ last' = [name |-> "setFileProp", file |-> f, arg |-> ""]
    /\ UNCHANGED <<mounted, rp, avVars, workerSupported, hook, wkState, dvState,
                   convs, revq, metaq>>

\* The parent renders the viewer with another toolbar prop
setToolbarProp ==
  \E t \in {"top", "bottom", "none"} :
    /\ Idle
    /\ t # props.toolbar
    /\ props' = [props EXCEPT !.toolbar = t]
    /\ out' = NoOut
    /\ last' = [name |-> "setToolbarProp", file |-> "", arg |-> t]
    /\ UNCHANGED <<mounted, rp, avVars, workerSupported, hook, wkState,
                   dvState, convs, revq, metaq>>

\* The parent renders the viewer with the other showSettingsButton prop
setShowSettingsButtonProp ==
  /\ Idle
  /\ props' = [props EXCEPT !.showSettingsButton = ~@]
  /\ out' = NoOut
  /\ last' = [name |-> "setShowSettingsButtonProp", file |-> "", arg |-> ""]
  /\ UNCHANGED <<mounted, rp, avVars, workerSupported, hook, wkState,
                 dvState, convs, revq, metaq>>

\* The parent that controls the settings renders the viewer with the
\* settings it was just given by onSettingsChange
setSettingsProp ==
  /\ Idle
  /\ Len(controlledSettings) > 0
  /\ Len(Calls("onSettingsChange")) > 0
  /\ props' = [props EXCEPT
                 !.settings = <<Calls("onSettingsChange")[1].arg>>]
  /\ out' = NoOut
  /\ last' = [name |-> "setSettingsProp", file |-> "", arg |-> ""]
  /\ UNCHANGED <<mounted, rp, avVars, workerSupported, hook, wkState, dvState,
                 convs, revq, metaq>>

\* useDocxodus finishes loading the engine.  With useWorker its result is
\* never read (isReady, isLoading and initError are the worker's, and a
\* ready worker is a held worker), so only the other case is followed.
hookSettles ==
  \E h \in {"ready", "error"} :
    /\ Idle
    /\ ~props.useWorker
    /\ hook = "loading"
    /\ hook' = h
    /\ out' = NoOut
    /\ last' = [name |-> "hookSettles", file |-> "", arg |-> h]
    /\ UNCHANGED <<mounted, rp, avVars, props, workerSupported, wkState, dvState,
                   convs, revq, metaq>>

\* createWorkerDocxodus resolves for the current run of the effect
\* (lines 124-129)
workerCreated ==
  /\ Idle
  /\ creating
  /\ creating' = FALSE
  /\ made' = made + 1
  /\ workerRef' = made + 1
  /\ worker' = "worker"
  /\ workerReady' = TRUE
  /\ workerLoading' = FALSE
  /\ out' = NoOut
  /\ last' = [name |-> "workerCreated", file |-> "", arg |-> ""]
  /\ UNCHANGED <<mounted, rp, avVars, props, workerSupported, hook,
                 workerError, terminated, stale, dvState, convs, revq, metaq>>

\* createWorkerDocxodus rejects with v for the current run (lines 134-138)
workerFailed ==
  \E v \in Thrown :
    /\ Idle
    /\ creating
    /\ creating' = FALSE
    /\ workerError' = WrapError(v)
    /\ workerLoading' = FALSE
    /\ out' = NoOut
    /\ last' = [name |-> "workerFailed", file |-> "", arg |-> v]
    /\ UNCHANGED <<mounted, rp, avVars, props, workerSupported, hook, worker,
                   workerReady, workerRef, made, terminated, stale, dvState,
                   convs, revq, metaq>>

\* A variant that installs the worker of a run that was cleaned up
staleCreatedInstalls ==
  /\ stale > 0
  /\ stale' = stale - 1
  /\ made' = made + 1
  /\ workerRef' = made + 1
  /\ worker' = "worker"
  /\ workerReady' = TRUE
  /\ workerLoading' = FALSE
  /\ out' = NoOut
  /\ last' = [name |-> "staleCreated", file |-> "", arg |-> ""]
  /\ UNCHANGED <<mounted, rp, avVars, props, workerSupported, hook,
                 workerError, creating, terminated, dvState, convs, revq,
                 metaq>>

\* createWorkerDocxodus resolves for a run that was cleaned up: cancelled
\* is true, and the new worker is terminated (lines 130-132)
staleCreated ==
  /\ stale > 0
  /\ stale' = stale - 1
  /\ made' = made + 1
  /\ terminated' = terminated \cup {made + 1}
  /\ out' = NoOut
  /\ last' = [name |-> "staleCreated", file |-> "", arg |-> ""]
  /\ UNCHANGED <<mounted, rp, avVars, props, workerSupported, hook, worker,
                 workerReady, workerLoading, workerError, creating, workerRef,
                 dvState, convs, revq, metaq>>

\* createWorkerDocxodus rejects for a run that was cleaned up: nothing is
\* set (lines 134-139)
staleFailed ==
  /\ stale > 0
  /\ stale' = stale - 1
  /\ out' = NoOut
  /\ last' = [name |-> "staleFailed", file |-> "", arg |-> ""]
  /\ UNCHANGED <<mounted, rp, avVars, props, workerSupported, hook, worker,
                 workerReady, workerLoading, workerError, creating, workerRef,
                 made, terminated, dvState, convs, revq, metaq>>

\* The worker effect runs again: the cleanup of its last run (lines 141-149,
\* returned only by a run with useWorker that found workers supported),
\* then its body with the new props p when the viewer is still mounted
\* (lines 114-123)
rerunWorkerEffect(p, stillMounted) ==
  LET cleanup == props.useWorker /\ workerSupported
      held == cleanup /\ workerRef # 0
      body == stillMounted /\ p.useWorker /\ workerSupported
  IN  /\ stale' = IF cleanup /\ creating THEN stale + 1 ELSE stale
      /\ terminated' = IF held THEN terminated \cup {workerRef}
                        ELSE terminated
      /\ workerRef' = IF held THEN 0 ELSE workerRef
      /\ worker' = IF held THEN Null ELSE worker
      /\ workerReady' = IF held THEN FALSE ELSE workerReady
      /\ creating' = IF body THEN TRUE
                      ELSE IF cleanup THEN FALSE ELSE creating
      /\ workerLoading' = IF body THEN TRUE ELSE workerLoading
      /\ workerError' = IF body THEN Null ELSE workerError
      /\ UNCHANGED made

\* The creations asked for so far leave room for one more
WorkerRoom == made + stale + (IF creating THEN 1 ELSE 0) < MaxWorkers

\* The parent renders the viewer with the other useWorker prop
setUseWorkerProp ==
  /\ Idle
  /\ (~props.useWorker /\ workerSupported) => WorkerRoom
  /\ props' = [props EXCEPT !.useWorker = ~@]
  /\ rerunWorkerEffect(props', TRUE)
  /\ out' = NoOut
  /\ last' = [name |-> "setUseWorkerProp", file |-> "", arg |-> ""]
  /\ UNCHANGED <<mounted, rp, avVars, workerSupported, hook, dvState, convs,
                 revq, metaq>>

\* The parent renders the viewer with another wasmBasePath prop
setWasmBasePathProp ==
  \E path \in {Undef, "/wasm/"} :
    /\ Idle
    /\ path # props.wasmBasePath
    /\ (props.useWorker /\ workerSupported) => WorkerRoom
    /\ props' = [props EXCEPT !.wasmBasePath = path]
    /\ rerunWorkerEffect(props', TRUE)
    /\ out' = NoOut
    /\ last' = [name |-> "setWasmBasePathProp", file |-> "", arg |-> path]
    /\ UNCHANGED <<mounted, rp, avVars, workerSupported, hook, dvState,
                   convs, revq, metaq>>

\* The viewer is unmounted: the cleanup of the effect runs, and the state
\* it sets is that of a viewer that is gone
unmount ==
  /\ DV
  /\ mounted' = "unmounted"
  /\ rerunWorkerEffect(props, FALSE)
  /\ out' = NoOut
  /\ last' = [name |-> "unmount", file |-> "", arg |-> ""]
  /\ UNCHANGED <<rp, avVars, props, workerSupported, hook, dvState, convs,
                 revq, metaq>>

----------------------------------------------------------------------------
(* AnnotationViewer.  A document is known by the number of annotations in  *)
(* it: that is all the viewer reads of one.  Its bytes, its annotation     *)
(* list and its html are <<n>> for the document with n annotations, and    *)
(* <<>> for null.                                                          *)

AV == mounted = "AnnotationViewer"

\* annotations a document holds at most
MaxAnnotations == 1

\* The annotations in the files the user can select
AnnotationsIn(f) == IF f = "a.docx" THEN 1 ELSE 0

\* The useState cells after the first render (lines 7-35); formFilled is
\* newAnnotation.label && newAnnotation.searchText
AVInitial ==
  [file |-> Null, documentBytes |-> <<>>, annotations |-> 0, html |-> <<>>,
   isLoading |-> FALSE, error |-> Null, showAddForm |-> FALSE,
   formFilled |-> FALSE, isAdding |-> FALSE, addError |-> Null]

avIsReady == hook = "ready"
isInitializing == hook = "loading"
avIsProcessing == av.isLoading \/ isInitializing

\* What a render of AnnotationViewer shows (lines 196-409)
AvRendered ==
  {"file-input"}
  \cup (IF Truthy(av.file) THEN {"clear"} ELSE {})
  \cup (IF avIsProcessing THEN {"spinner"} ELSE {})
  \cup (IF av.error # Null /\ ~avIsProcessing THEN {"error"} ELSE {})
  \cup (IF Truthy(av.file) /\ ~avIsProcessing /\ av.error = Null
        THEN {"summary"}
             \cup (IF ~av.showAddForm THEN {"add-button"} ELSE {})
             \cup (IF Len(av.documentBytes) > 0 /\ av.annotations > 0
                   THEN {"download"} ELSE {})
             \cup (IF av.showAddForm THEN {"add-form"} ELSE {})
             \cup (IF av.showAddForm /\ av.addError # Null
                   THEN {"form-error"} ELSE {})
             \cup (IF av.annotations = 0 /\ ~av.showAddForm
                   THEN {"no-annotations"} ELSE {"annotations-list"})
             \cup (IF av.annotations > 0 THEN {"remove-button"} ELSE {})
             \cup (IF Len(av.html) > 0 THEN {"preview"} ELSE {})
        ELSE {})

\* The messages the page shows: "Error: m" and the form's error
AvMessagesShown ==
  (IF "error" \in AvRendered THEN {Message(av.error)} ELSE {})
  \cup (IF "form-error" \in AvRendered THEN {av.addError} ELSE {})

\* An operation in flight: the handler that awaits, the engine call it
\* awaits, and the document it passed
AvOp(op, stage, doc) == [op |-> op, stage |-> stage, doc |-> doc]

AvCall(op, doc) == EngineCall(op, "direct", doc, FALSE)

AvRoom == BagCardinality(avq) < MaxInFlight

AvStep(name, arg) == [name |-> name, file |-> "", arg |-> arg]

\* handleFileChange with the file f selected; loadDocument up to its await
avHandleFileChange ==
  \E f \in Files :
    /\ AV
    /\ ~avIsProcessing
    /\ avIsReady => AvRoom
    /\ IF avIsReady
       THEN /\ av' = [av EXCEPT !.file = f, !.showAddForm = FALSE,
                                !.addError = Null, !.isLoading = TRUE,
                                !.error = Null]
            /\ avq' = avq (+) SetToBag({AvOp("load", "getAnnotations",
                                             AnnotationsIn(f))})
            /\ out' = <<AvCall("getAnnotations", AnnotationsIn(f))>>
       ELSE /\ av' = [av EXCEPT !.file = f, !.showAddForm = FALSE,
                                !.addError = Null]
            /\ out' = NoOut
            /\ UNCHANGED avq
    /\ last' = AvStep("avHandleFileChange", "")
    /\ UNCHANGED <<mounted, rp, hook, dvVars>>

\* loadDocument after an await that resolved
loadResolve ==
  \E c \in BagToSet(avq) :
    /\ AV
    /\ c.op = "load"
    /\ CASE c.stage = "getAnnotations" ->
              /\ av' = [av EXCEPT !.annotations = c.doc]
              /\ avq' = (avq (-) SetToBag({c}))
                          (+) SetToBag({[c EXCEPT !.stage = "convertToHtml"]})
              /\ out' = <<AvCall("convertToHtml", c.doc)>>
         [] c.stage = "convertToHtml" ->
              /\ av' = [av EXCEPT !.html = <<c.doc>>]
              /\ avq' = (avq (-) SetToBag({c}))
                          (+) SetToBag({[c EXCEPT !.stage = "arrayBuffer"]})
              /\ out' = NoOut
         [] c.stage = "arrayBuffer" ->
              /\ av' = [av EXCEPT !.documentBytes = <<c.doc>>,
                                  !.isLoading = FALSE]
              /\ avq' = avq (-) SetToBag({c})
              /\ out' = NoOut
    /\ last' = AvStep("loadResolve", c.stage)
    /\ UNCHANGED <<mounted, rp, hook, dvVars>>

\* loadDocument after an await that rejected with v
loadReject ==
  \E c \in BagToSet(avq), v \in Thrown :
    /\ AV
    /\ c.op = "load"
    /\ av' = [av EXCEPT !.error = IF v \in ErrorObjects THEN v
                                  ELSE NewError(FailedToLoad),
                        !.isLoading = FALSE]
    /\ avq' = avq (-) SetToBag({c})
    /\ out' = NoOut
    /\ last' = AvStep("loadReject", v)
    /\ UNCHANGED <<mounted, rp, hook, dvVars>>

avHandleClear ==
  /\ AV
  /\ Truthy(av.file)
  /\ ~avIsProcessing
  /\ av' = [av EXCEPT !.file = Null, !.documentBytes = <<>>,
                      !.annotations = 0, !.html = <<>>,
                      !.showAddForm = FALSE, !.addError = Null,
                      !.error = Null]
  /\ out' = NoOut
  /\ last' = AvStep("avHandleClear", "")
  /\ UNCHANGED <<mounted, rp, hook, dvVars, avq>>

\* The Add Annotation button of the summary
openAddForm ==
  /\ AV
  /\ "add-button" \in AvRendered
  /\ av' = [av EXCEPT !.showAddForm = TRUE]
  /\ out' = NoOut
  /\ last' = AvStep("openAddForm", "")
  /\ UNCHANGED <<mounted, rp, hook, dvVars, avq>>

\* The label and search text inputs: both get a text, or one is emptied
editAddForm ==
  /\ AV
  /\ "add-form" \in AvRendered
  /\ av' = [av EXCEPT !.formFilled = ~av.formFilled]
  /\ out' = NoOut
  /\ last' = AvStep("editAddForm", "")
  /\ UNCHANGED <<mounted, rp, hook, dvVars, avq>>

\* The Cancel button of the form
cancelAddForm ==
  /\ AV
  /\ "add-form" \in AvRendered
  /\ av' = [av EXCEPT !.showAddForm = FALSE, !.addError = Null]
  /\ out' = NoOut
  /\ last' = AvStep("cancelAddForm", "")
  /\ UNCHANGED <<mounted, rp, hook, dvVars, avq>>

\* handleAddAnnotation, up to its first await
handleAddAnnotation ==
  /\ AV
  /\ "add-form" \in AvRendered
  /\ ~av.isAdding
  /\ IF ~av.formFilled
     THEN /\ av' = [av EXCEPT
                      !.addError = "Label and search text are required"]
          /\ out' = NoOut
          /\ UNCHANGED avq
     ELSE IF Len(av.documentBytes) = 0
     THEN /\ av' = [av EXCEPT !.addError = "No document loaded"]
          /\ out' = NoOut
          /\ UNCHANGED avq
     ELSE /\ AvRoom
          /\ av.documentBytes[1] < MaxAnnotations
          /\ av' = [av EXCEPT !.isAdding = TRUE, !.addError = Null]
          /\ avq' = avq (+) SetToBag({
                 [op |-> "add", stage |-> "addAnnotation",
                  doc |-> av.documentBytes[1],
                  \* the cells of the document the attempt has set
                  wrote |-> {}]})
          /\ out' = <<AvCall("addAnnotation", av.documentBytes[1])>>
  /\ last' = AvStep("handleAddAnnotation", "")
  /\ UNCHANGED <<mounted, rp, hook, dvVars>>

\* handleAddAnnotation after an await that resolved; the engine's result of
\* addAnnotation either has success and the new bytes or has not
addResolve ==
  \E c \in BagToSet(avq), result \in {"success", "failure"} :
    /\ AV
    /\ c.op = "add"
    /\ CASE c.stage = "addAnnotation" /\ result = "success" ->
              /\ av' = [av EXCEPT !.documentBytes = <<c.doc + 1>>]
              /\ avq' = (avq (-) SetToBag({c}))
                          (+) SetToBag({[c EXCEPT
                                          !.stage = "getAnnotations",
                                          !.doc = c.doc + 1,
                                          !.wrote = {"documentBytes"}]})
              /\ out' = <<AvCall("getAnnotations", c.doc + 1)>>
         [] c.stage = "addAnnotation" /\ result = "failure" ->
              /\ av' = [av EXCEPT !.addError = "Failed to add annotation",
                                  !.isAdding = FALSE]
              /\ avq' = avq (-) SetToBag({c})
              /\ out' = NoOut
         [] c.stage = "getAnnotations" ->
              /\ av' = [av EXCEPT !.annotations = c.doc]
              /\ avq' = (avq (-) SetToBag({c}))
                          (+) SetToBag({[c EXCEPT
                                          !.stage = "convertToHtml",
                                          !.wrote = @ \cup {"annotations"}]})
              /\ out' = <<AvCall("convertToHtml", c.doc)>>
         [] c.stage = "convertToHtml" ->
              /\ av' = [av EXCEPT !.html = <<c.doc>>, !.formFilled = FALSE,
                                  !.showAddForm = FALSE, !.isAdding = FALSE]
              /\ avq' = avq (-) SetToBag({c})
              /\ out' = NoOut
    /\ last' = AvStep("addResolve", c.stage)
    /\ UNCHANGED <<mounted, rp, hook, dvVars>>

\* handleAddAnnotation after an await that rejected with v
addReject ==
  \E c \in BagToSet(avq), v \in Thrown :
    /\ AV
    /\ c.op = "add"
    /\ av' = [av EXCEPT !.addError = IF v \in ErrorObjects THEN Message(v)
                                     ELSE "Failed to add annotation",
                        !.isAdding = FALSE]
    /\ avq' = avq (-) SetToBag({c})
    /\ out' = NoOut
    /\ last' = AvStep("addReject", v)
    /\ UNCHANGED <<mounted, rp, hook, dvVars>>

\* handleRemoveAnnotation, up to its first await: the remove button of one
\* of the annotations listed
handleRemoveAnnotation ==
  /\ AV
  /\ "remove-button" \in AvRendered
  /\ Len(av.documentBytes) > 0
  /\ av.documentBytes[1] > 0
  /\ AvRoom
  /\ avq' = avq (+) SetToBag({AvOp("remove", "removeAnnotation",
                                   av.documentBytes[1])})
  /\ out' = <<AvCall("removeAnnotation", av.documentBytes[1])>>
  /\ last' = AvStep("handleRemoveAnnotation", "")
  /\ UNCHANGED <<mounted, rp, hook, dvVars, av>>

\* handleRemoveAnnotation after an await that resolved
removeResolve ==
  \E c \in BagToSet(avq), result \in {"success", "failure"} :
    /\ AV
    /\ c.op = "remove"
    /\ CASE c.stage = "removeAnnotation" /\ result = "success" ->
              /\ av' = [av EXCEPT !.documentBytes = <<c.doc - 1>>]
              /\ avq' = (avq (-) SetToBag({c}))
                          (+) SetToBag({AvOp("remove", "getAnnotations",
                                             c.doc - 1)})
              /\ out' = <<AvCall("getAnnotations", c.doc - 1)>>
         [] c.stage = "removeAnnotation" /\ result = "failure" ->
              /\ avq' = avq (-) SetToBag({c})
              /\ out' = NoOut
              /\ UNCHANGED av
         [] c.stage = "getAnnotations" ->
              /\ av' = [av EXCEPT !.annotations = c.doc]
              /\ avq' = (avq (-) SetToBag({c}))
                          (+) SetToBag({[c EXCEPT !.stage = "convertToHtml"]})
              /\ out' = <<AvCall("convertToHtml", c.doc)>>
         [] c.stage = "convertToHtml" ->
              /\ av' = [av EXCEPT !.html = <<c.doc>>]
              /\ avq' = avq (-) SetToBag({c})
              /\ out' = NoOut
    /\ last' = AvStep("removeResolve", c.stage)
    /\ UNCHANGED <<mounted, rp, hook, dvVars>>

\* handleRemoveAnnotation after an await that rejected with v: the catch
\* block writes to the console
removeReject ==
  \E c \in BagToSet(avq), v \in Thrown :
    /\ AV
    /\ c.op = "remove"
    /\ avq' = avq (-) SetToBag({c})
    /\ out' = NoOut
    /\ last' = AvStep("removeReject", v)
    /\ UNCHANGED <<mounted, rp, hook, dvVars, av>>

\* useDocxodus finishes loading the engine
avHookSettles ==
  \E h \in {"ready", "error"} :
    /\ AV
    /\ hook = "loading"
    /\ hook' = h
    /\ out' = NoOut
    /\ last' = AvStep("avHookSettles", h)
    /\ UNCHANGED <<mounted, rp, dvVars, avVars>>

----------------------------------------------------------------------------
(* RevisionPanel.  A revision is its revisionType and its text; a text is  *)
(* known by its length, which is all the panel reads of one besides        *)
(* showing it.  A shown text is the number of its characters on the page   *)
(* and whether '...' follows them.                                         *)

RP == mounted = "RevisionPanel"

\* longest list of revisions the panel is given
MaxRevisions == 2

maxLength == 100

RevisionTypes == {"Inserted", "Deleted", "Moved", "FormatChanged", "Other"}
Texts == {maxLength, maxLength + 1}
Revisions == [revisionType : RevisionTypes, text : Texts]
RevisionLists ==
  UNION {[1..n -> Revisions] : n \in 0..MaxRevisions}

FilterTypes == {"all", "insertions", "deletions", "moves", "formatting"}

isInsertion(rev) == rev.revisionType = "Inserted"
isDeletion(rev) == rev.revisionType = "Deleted"
isMove(rev) == rev.revisionType = "Moved"
isFormatChange(rev) == rev.revisionType = "FormatChanged"

RPInitial(revs) == [revisions |-> revs, filter |-> "all", expandedIds |-> {}]

\* A variant that cuts one character later
truncateTextLate(text) ==
  IF text <= maxLength + 1 THEN [chars |-> text, dots |-> FALSE]
  ELSE [chars |-> maxLength + 1, dots |-> TRUE]

truncateText(text) ==
  IF text <= maxLength THEN [chars |-> text, dots |-> FALSE]
  ELSE [chars |-> maxLength, dots |-> TRUE]

\* A text shown in full
FullText(text) == [chars |-> text, dots |-> FALSE]

\* The test of the filter of the list
Passes(rev, f) ==
  CASE f = "insertions" -> isInsertion(rev)
    [] f = "deletions" -> isDeletion(rev)
    [] f = "moves" -> isMove(rev)
    [] f = "formatting" -> isFormatChange(rev)
    [] OTHER -> TRUE

\* A variant that shows the whole list whatever the filter
filteredRevisionsAll == rp.revisions

filteredRevisions ==
  IF rp.filter = "all" THEN rp.revisions
  ELSE SelectSeq(rp.revisions, LAMBDA rev : Passes(rev, rp.filter))

\* A variant that counts the filtered list
statsOfFiltered ==
  [total |-> Len(filteredRevisions),
   insertions |-> Len(SelectSeq(filteredRevisions, isInsertion)),
   deletions |-> Len(SelectSeq(filteredRevisions, isDeletion)),
   moves |-> Len(SelectSeq(filteredRevisions, isMove)),
   formatting |-> Len(SelectSeq(filteredRevisions, isFormatChange))]

stats ==
  [total |-> Len(rp.revisions),
   insertions |-> Len(SelectSeq(rp.revisions, isInsertion)),
   deletions |-> Len(SelectSeq(rp.revisions, isDeletion)),
   moves |-> Len(SelectSeq(rp.revisions, isMove)),
   formatting |-> Len(SelectSeq(rp.revisions, isFormatChange))]

\* The panel shows its header and its list; without revisions it shows a
\* notice instead (lines 84-93)
PanelShown == Len(rp.revisions) > 0

\* The statistics of the header: the total, and a badge per category
StatsShown ==
  IF PanelShown
  THEN [k \in {"total"} \cup {c \in {"insertions", "deletions", "moves",
                                      "formatting"} : stats[c] > 0}
          |-> stats[k]]
  ELSE [k \in {} |-> 0]

\* The items of the list, in order; the item of index i is Items[i + 1]
Items ==
  IF PanelShown
  THEN [j \in 1..Len(filteredRevisions) |->
          LET revision == filteredRevisions[j]
              isExpanded == (j - 1) \in rp.expandedIds
              needsTruncation == revision.text > maxLength
          IN  [revision |-> revision,
               text |-> IF isExpanded THEN FullText(revision.text)
                        ELSE truncateText(revision.text),
               button |-> IF needsTruncation
                          THEN (IF isExpanded THEN "Show less"
                                ELSE "Show more")
                          ELSE "none"]]
  ELSE <<>>

RpStep(name, arg) == [name |-> name, file |-> "", arg |-> arg]

\* The select of the header
setFilter ==
  \E f \in FilterTypes :
    /\ RP
    /\ PanelShown
    /\ f # rp.filter
    /\ rp' = [rp EXCEPT !.filter = f]
    /\ out' = NoOut
    /\ last' = RpStep("setFilter", f)
    /\ UNCHANGED <<mounted, hook, dvVars, avVars>>

\* The button of the item of one index
toggleExpanded ==
  \E index \in 0..(Len(Items) - 1) :
    /\ RP
    /\ Items[index + 1].button # "none"
    /\ rp' = [rp EXCEPT !.expandedIds =
                 IF index \in @ THEN @ \ {index} ELSE @ \cup {index}]
    /\ out' = NoOut
    /\ last' = RpStep("toggleExpanded", index)
    /\ UNCHANGED <<mounted, hook, dvVars, avVars>>

\* The parent renders the panel with another list
setRevisionsProp ==
  \E revs \in RevisionLists :
    /\ RP
    /\ revs # rp.revisions
    /\ rp' = [rp EXCEPT !.revisions = revs]
    /\ out' = NoOut
    /\ last' = RpStep("setRevisionsProp", "")
    /\ UNCHANGED <<mounted, hook, dvVars, avVars>>

----------------------------------------------------------------------------
(* One of the two components is on the page.  The variables of the other   *)
(* keep the values of a component that was never used.                     *)

Init ==
  /\ mounted \in {"DocumentViewer", "AnnotationViewer"}
  /\ IF mounted = "DocumentViewer"
     THEN DVInit
     ELSE DVInitWith([props |-> [DefaultProps EXCEPT !.useWorker = FALSE],
                      supported |-> FALSE])
  /\ hook = "loading"
  /\ av = AVInitial
  /\ avq = EmptyBag
  /\ rp = RPInitial(<<>>)
  /\ out = NoOut
  /\ last = [name |-> "mount", file |-> "", arg |-> ""]

DVNext ==
  \/ autoConvert
  \/ rafFire
  \/ convertResolve
  \/ convertReject
  \/ revisionsResolve
  \/ revisionsReject
  \/ metadataResolve
  \/ metadataReject
  \/ handleFileChange
  \/ handleClear
  \/ openSettings
  \/ closeSettings
  \/ applyAndClose
  \/ toggleSetting
  \/ setViewMode
  \/ onPaginationComplete
  \/ handlePageVisible
  \/ setFileProp
  \/ hookSettles
  \/ workerCreated
  \/ workerFailed

AVNext ==
  \/ avHandleFileChange
  \/ loadResolve
  \/ loadReject
  \/ avHandleClear
  \/ openAddForm
  \/ editAddForm
  \/ cancelAddForm
  \/ handleAddAnnotation
  \/ addResolve
  \/ addReject
  \/ handleRemoveAnnotation
  \/ removeResolve
  \/ removeReject
  \/ avHookSettles

Next == DVNext \/ AVNext

Spec == Init /\ [][Next]_vars

----------------------------------------------------------------------------
(* The zoom controls.  The viewer starts with a scale within [0.3, 2.0],   *)
(* its own or its parent's, shows a document, and the user zooms.          *)

ZoomInit ==
  /\ mounted = "DocumentViewer"
  /\ \E c \in
      {[props |-> [DefaultProps EXCEPT !.showSettingsButton = FALSE],
        supported |-> TRUE],
       [props |-> [DefaultProps EXCEPT
                     !.defaultSettings =
                        <<[paginationScale |-> Double("0.3")]>>,
                     !.useWorker = FALSE,
                     !.showSettingsButton = FALSE],
        supported |-> TRUE],
       [props |-> [DefaultProps EXCEPT
                     !.defaultSettings =
                        <<[paginationScale |-> Double("1.95")]>>,
                     !.file = "a.docx",
                     !.showRevisionsTab = FALSE,
                     !.showSettingsButton = FALSE],
        supported |-> TRUE],
       [props |-> [DefaultProps EXCEPT
                     !.settings = <<[paginationScale |-> Double("2")]>>,
                     !.showSettingsButton = FALSE],
        supported |-> TRUE]} : DVInitWith(c)
  /\ hook = "loading"
  /\ av = AVInitial
  /\ avq = EmptyBag
  /\ rp = RPInitial(<<>>)
  /\ out = NoOut
  /\ last = [name |-> "mount", file |-> "", arg |-> ""]

ZoomNext ==
  \/ handleZoomIn
  \/ handleZoomOut
  \/ handleZoomChange
  \/ setSettingsProp
  \/ hookSettles
  \/ workerCreated
  \/ handleFileChange
  \/ autoConvert
  \/ rafFire
  \/ convertResolve
  \/ revisionsResolve
  \/ metadataResolve
  \/ onPaginationComplete
  \/ setViewMode

ZoomSpec == ZoomInit /\ [][ZoomNext]_vars

----------------------------------------------------------------------------
(* The toolbar and the settings modal.  Documents are opened, converted    *)
(* and cleared, the modal is used, and the parent may change the props     *)
(* toolbar and showSettingsButton at any render.                           *)

LayoutInit ==
  /\ mounted = "DocumentViewer"
  /\ \E c \in
      {[props |-> DefaultProps, supported |-> TRUE],
       [props |-> [DefaultProps EXCEPT !.toolbar = "bottom", !.file = Null,
                                       !.useWorker = FALSE],
        supported |-> TRUE]} : DVInitWith(c)
  /\ hook = "loading"
  /\ av = AVInitial
  /\ avq = EmptyBag
  /\ rp = RPInitial(<<>>)
  /\ out = NoOut
  /\ last = [name |-> "mount", file |-> "", arg |-> ""]

LayoutNext ==
  \/ hookSettles
  \/ workerCreated
  \/ workerFailed
  \/ handleFileChange
  \/ autoConvert
  \/ rafFire
  \/ convertResolve
  \/ convertReject
  \/ revisionsResolve
  \/ metadataReject
  \/ setViewMode
  \/ handleClear
  \/ openSettings
  \/ closeSettings
  \/ applyAndClose
  \/ clickModalBody
  \/ setToolbarProp
  \/ setShowSettingsButtonProp

LayoutSpec == LayoutInit /\ [][LayoutNext]_vars

----------------------------------------------------------------------------
(* The worker.  The parent changes the props useWorker and wasmBasePath,   *)
(* which run the worker effect again, and unmounts the viewer; a creation  *)
(* can settle after its run of the effect has been cleaned up.             *)

WorkerInit ==
  /\ mounted = "DocumentViewer"
  /\ \E c \in {[props |-> DefaultProps, supported |-> TRUE],
                [props |-> DefaultProps, supported |-> FALSE],
                [props |-> [DefaultProps EXCEPT !.useWorker = FALSE,
                                                !.wasmBasePath = "/wasm/"],
                 supported |-> TRUE]} : DVInitWith(c)
  /\ hook = "loading"
  /\ av = AVInitial
  /\ avq = EmptyBag
  /\ rp = RPInitial(<<>>)
  /\ out = NoOut
  /\ last = [name |-> "mount", file |-> "", arg |-> ""]

WorkerNext ==
  \/ workerCreated
  \/ workerFailed
  \/ staleCreated
  \/ staleFailed
  \/ setUseWorkerProp
  \/ setWasmBasePathProp
  \/ unmount
  \/ hookSettles

WorkerSpec == WorkerInit /\ [][WorkerNext]_vars

----------------------------------------------------------------------------
(* The revision panel on its own, with any list of revisions *)

PanelInit ==
  /\ mounted = "RevisionPanel"
  /\ DVInitWith([props |-> [DefaultProps EXCEPT !.useWorker = FALSE],
                 supported |-> FALSE])
  /\ hook = "loading"
  /\ av = AVInitial
  /\ avq = EmptyBag
  /\ \E revs \in RevisionLists : rp = RPInitial(revs)
  /\ out = NoOut
  /\ last = [name |-> "mount", file |-> "", arg |-> ""]

PanelNext ==
  \/ setFilter
  \/ toggleExpanded
  \/ setRevisionsProp

PanelSpec == PanelInit /\ [][PanelNext]_vars

----------------------------------------------------------------------------
(* Properties *)

\* The engine calls of one operation the last step made, in order
EngineCalls(op) == SelectSeq(out, LAMBDA e : e.kind = "engine" /\ e.op = op)

InFlight == BagCardinality(convs)

\* The error messages on the page
MessagesShown == IF DV THEN ErrorMessagesShown ELSE AvMessagesShown

\* The message string of a thrown value
ThrownMessage(v) == IF v \in ErrorObjects THEN Message(v) ELSE StringOf(v)

\* C1 (as stated): after a step in which an engine call of a component has
\* failed, the page shows the message of what it failed with.
C1_EveryFailureMessageShown ==
  last.name \in {"convertReject", "revisionsReject", "metadataReject",
                 "loadReject", "addReject", "removeReject"}
    => ThrownMessage(last.arg) \in MessagesShown

\* C1 (amended): every failure of an engine call is caught.  A failed
\* conversion of DocumentViewer leaves its message as the one message shown.
\* A failed revision extraction or metadata fetch leaves the error state and
\* the messages shown as they were.  A failed removal of an annotation
\* leaves all of AnnotationViewer's state as it was.  A failed addition sets
\* addError to the message of an Error, and to 'Failed to add annotation'
\* for any other value, and the page shows it exactly when it shows the
\* add form.  A failed load of AnnotationViewer shows the message of an
\* Error, and 'Failed to load document' for any other value.
C1_FailuresCaughtAndShown ==
  [][LET v == last'.arg
     IN  /\ last'.name = "convertReject" =>
              MessagesShown' = {ThrownMessage(v)}
         /\ last'.name \in {"revisionsReject", "metadataReject"} =>
              error' = error /\ MessagesShown' = MessagesShown
         /\ last'.name = "removeReject" => av' = av
         /\ last'.name = "addReject" =>
              /\ av'.addError = (IF v \in ErrorObjects THEN Message(v)
                                 ELSE "Failed to add annotation")
              /\ ~av'.isAdding
              /\ av'.error = av.error
              /\ ("form-error" \in AvRendered')
                   <=> ("add-form" \in AvRendered')
         /\ last'.name = "loadReject" =>
              MessagesShown' = {IF v \in ErrorObjects THEN Message(v)
                                ELSE FailedToLoad}]_vars

\* C1's case: a revision extraction has failed and no message is shown
C1_Witness ==
  /\ last.name = "revisionsReject"
  /\ last.arg = "Error(boom)"
  /\ Truthy(html)
  /\ MessagesShown = {}

\* C2 (as stated): the effect never starts a conversion of a file as the
\* step right after a conversion of that file has failed, that is with no
\* user action and no prop change between the failure and the new call.
C2_NoConversionOnItsOwnAfterFailure ==
  \A c \in BagToSet(convs) : ~c.retry

\* C3: a step in which the engine rejects a conversion with v sets error to
\* v, or to new Error(String(v)) when v is not an Error; calls onError once,
\* with that error; does not call onConversionComplete; leaves the html as
\* it was; leaves isConverting false; and the page shows that error's
\* message.
C3_RejectedConversion ==
  [][last'.name = "convertReject" =>
       LET v == last'.arg
           e == IF v \in ErrorObjects THEN v ELSE NewError(StringOf(v))
       IN  /\ error' = e
           /\ Calls("onError")' = <<Callback("onError", e)>>
           /\ Calls("onConversionComplete")' = <<>>
           /\ internalHtml' = internalHtml
           /\ html' = html
           /\ ~isConverting'
           /\ ErrorMessagesShown' = {Message(e)}]_vars

\* C3's case: a conversion has been rejected with a value that is not an
\* Error, while the html of an earlier conversion is held
C3_Witness ==
  /\ last.name = "convertReject"
  /\ last.arg = "oops"
  /\ internalHtml # Null
  /\ error = "Error(oops)"

\* C4 (as stated): in controlled mode, once the file prop has changed to a
\* file while the engine is ready, and no conversion is due or in flight,
\* the html shown is that file's.
C4_ControlledFileIsConverted ==
  (/\ last.name = "setFileProp"
   /\ Truthy(props.file)
   /\ controlledHtml = Undef
   /\ isReady
   /\ ~AutoConvertCond
   /\ convs = EmptyBag)
  => html = EngineHtml(props.file)

\* C5 (as stated): with the html prop supplied, no step calls the engine's
\* convert operation and no conversion is in flight.
C5_NoConversionWithHtmlProp ==
  controlledHtml # Undef => EngineCalls("convert") = <<>> /\ convs = EmptyBag

\* C6: a step that updates the settings with u calls onSettingsChange once,
\* with the effective settings overlaid by u.  Without a settings prop the
\* effective settings become that value; with one they stay DEFAULT_SETTINGS
\* overlaid by defaultSettings overlaid by the prop, and the internal
\* settings do not change.
C6_SettingsUpdate ==
  [][last'.name = "updateSettings" =>
       LET u == last'.arg
           merged == Overlay(settings, u)
       IN  /\ Calls("onSettingsChange")' =
                <<Callback("onSettingsChange", merged)>>
           /\ IF Len(props.settings) = 0
              THEN settings' = merged
              ELSE /\ settings' =
                        Overlay(Overlay(DEFAULT_SETTINGS,
                                        IF Len(props.defaultSettings) = 0
                                        THEN EmptyPartial
                                        ELSE props.defaultSettings[1]),
                                props.settings[1])
                   /\ internalSettings' = internalSettings]_vars

\* C6's case: the settings have been updated while the settings prop and
\* defaultSettings are given
C6_Witness ==
  /\ last.name = "updateSettings"
  /\ Len(Calls("onSettingsChange")) = 1
  /\ Len(props.settings) > 0
  /\ Len(props.defaultSettings) > 0

\* C7 (as stated): every engine call goes through the worker when useWorker
\* is true and direct when it is false, and with useWorker false there is
\* no worker.
C7_RoutedByUseWorker ==
  /\ \A i \in 1..Len(out) :
       out[i].kind = "engine" =>
         out[i].via = (IF out[i].useWorker THEN "worker" ELSE "direct")
  /\ ~props.useWorker => worker = Null /\ ~creating /\ ~workerReady

\* C7 (amended): convert and getRevisions go through the worker when
\* useWorker is true and direct when it is false; getDocumentMetadata goes
\* through the worker when useWorker is true and a worker is held, and
\* direct otherwise; with useWorker false there is no worker.
C7_RoutedByUseWorkerAndWorker ==
  /\ \A i \in 1..Len(out) :
       out[i].kind = "engine" =>
         IF out[i].op = "getDocumentMetadata"
         THEN out[i].via = (IF out[i].useWorker /\ worker # Null
                            THEN "worker" ELSE "direct")
         ELSE out[i].via = (IF out[i].useWorker THEN "worker" ELSE "direct")
  /\ ~props.useWorker => worker = Null /\ ~creating /\ ~workerReady

\* C7's case: metadata has been fetched by a direct call with useWorker true
C7_Witness ==
  \E i \in 1..Len(out) :
    /\ out[i].kind = "engine"
    /\ out[i].op = "getDocumentMetadata"
    /\ out[i].useWorker
    /\ out[i].via = "direct"

\* C8 (as stated): the step in which a conversion settles calls exactly one
\* of onConversionComplete and onError.
C8_ExactlyOneClosingCallback ==
  last.name \in {"convertResolve", "convertReject"} =>
    Len(Calls("onConversionComplete")) + Len(Calls("onError")) = 1

\* C8 (amended): a step calls onConversionStart once when it starts a
\* conversion and not otherwise; the engine's convert is called after
\* onConversionStart, in the same step or in a later one; a step in which a
\* conversion settles calls onConversionComplete alone when the engine
\* resolved and the callback returned, onError alone when the engine
\* rejected, and onConversionComplete and then onError when the engine
\* resolved and onConversionComplete threw; no other step calls either.
C8_ConversionCallbacks ==
  [][LET o == out'
         starts == Calls("onConversionStart")'
         done == Calls("onConversionComplete")'
         errs == Calls("onError")'
     IN  /\ Len(starts) = (IF InFlight' > InFlight THEN 1 ELSE 0)
         /\ \A i \in 1..Len(o) :
              (o[i].kind = "engine" /\ o[i].op = "convert") =>
                \/ \E j \in 1..(i - 1) : o[j].kind = "onConversionStart"
                \/ \E c \in BagToSet(convs) :
                     c.stage = "raf" /\ c.file = o[i].file
         /\ IF InFlight' < InFlight
            THEN IF last'.name = "convertReject"
                 THEN Len(done) = 0 /\ Len(errs) = 1
                 ELSE /\ last'.name = "convertResolve"
                      /\ done = <<Callback("onConversionComplete",
                                           EngineHtml(last'.file))>>
                      /\ IF props.onConversionComplete = "throws"
                         THEN /\ Len(errs) = 1
                              /\ o = done \o errs
                         ELSE Len(errs) = 0
            ELSE Len(done) = 0 /\ Len(errs) = 0]_vars

\* C8's case: a conversion has settled with both callbacks called
C8_Witness ==
  /\ last.name = "convertResolve"
  /\ Len(Calls("onConversionComplete")) = 1
  /\ Len(Calls("onError")) = 1

\* C9 (as stated): the step in which a conversion of a file succeeds calls
\* getRevisions for that file.
C9_ExtractsAfterEveryConversion ==
  last.name = "convertResolve" =>
    \E i \in 1..Len(EngineCalls("getRevisions")) :
      EngineCalls("getRevisions")[i].file = last.file

\* C9 (amended): the step in which a conversion of a file succeeds calls
\* getRevisions once, for that file, when showRevisionsTab is true and
\* onConversionComplete returned, and does not call it otherwise; no other
\* step calls it.  When getRevisions resolves, onRevisionsExtracted is
\* called once with the extracted list; when it rejects, the revisions are
\* empty and onRevisionsExtracted is not called.
C9_ExtractionAfterConversion ==
  /\ last.name = "convertResolve" =>
       IF props.showRevisionsTab /\ props.onConversionComplete = "returns"
       THEN /\ Len(EngineCalls("getRevisions")) = 1
            /\ EngineCalls("getRevisions")[1].file = last.file
            /\ \E r \in BagToSet(revq) : r.file = last.file
       ELSE EngineCalls("getRevisions") = <<>>
  /\ EngineCalls("getRevisions") # <<>> => last.name = "convertResolve"
  /\ last.name = "revisionsResolve" =>
       /\ Calls("onRevisionsExtracted") =
            <<Callback("onRevisionsExtracted", EngineRevisions(last.file))>>
       /\ props.onRevisionsExtracted = "returns" =>
            revisions = EngineRevisions(last.file)
  /\ last.name = "revisionsReject" =>
       Calls("onRevisionsExtracted") = <<>> /\ revisions = <<>>
  /\ Calls("onRevisionsExtracted") # <<>> => last.name = "revisionsResolve"

\* C9's case: the revisions of a converted file have been extracted
C9_Witness ==
  /\ last.name = "revisionsResolve"
  /\ revisions # <<>>
  /\ html = EngineHtml(last.file)

C11_ZoomKeepsScale ==
  [][/\ Leq(Double("0.3"), settings.paginationScale)
     /\ Leq(settings.paginationScale, Double("2"))
     /\ Leq(Double("0.3"), settings.paginationScale')
     /\ Leq(settings.paginationScale', Double("2"))
     /\ "zoom-controls" \in Rendered =>
          /\ "zoom-in-enabled" \in Rendered
                <=> Less(settings.paginationScale, Double("2"))
          /\ "zoom-out-enabled" \in Rendered
                <=> Less(Double("0.3"), settings.paginationScale)
     /\ (last'.name = "updateSettings"
           /\ DOMAIN last'.arg = {"paginationScale"}) =>
          /\ \A i \in 1..Len(out') : out'[i].kind = "onSettingsChange"
          /\ file' = file
          /\ html' = html
          /\ fileName' = fileName
          /\ currentPage' = currentPage
          /\ totalPages' = totalPages
          /\ viewMode' = viewMode
          /\ isConverting' = isConverting
          /\ UNCHANGED <<convs, revq, metaq>>]_vars

\* C11 witness: a viewer that started at 0.8 has been zoomed out to the
\* lower end, where zoom-out is disabled, and a zoom step has just happened
C11_Witness ==
  /\ last.name = "updateSettings"
  /\ DOMAIN last.arg = {"paginationScale"}
  /\ Len(controlledSettings) = 0
  /\ mergedDefaults.paginationScale = Double("0.8")
  /\ settings.paginationScale = Double("0.3")
  /\ "zoom-controls" \in Rendered
  /\ "zoom-out-enabled" \notin Rendered

\* C12: the list shows exactly the revisions of the selected category, in
\* the order of the revisions list, and every revision when the filter is
\* 'all', whatever filters were selected before.
C12_FilterShowsCategory ==
  RP /\ PanelShown =>
    LET type == CASE rp.filter = "insertions" -> "Inserted"
                  [] rp.filter = "deletions" -> "Deleted"
                  [] rp.filter = "moves" -> "Moved"
                  [] rp.filter = "formatting" -> "FormatChanged"
                  [] rp.filter = "all" -> "any"
        want == {i \in 1..Len(rp.revisions) :
                   type = "any" \/ rp.revisions[i].revisionType = type}
    IN  /\ Len(Items) = Cardinality(want)
        /\ \A i \in want :
             Items[Cardinality({k \in want : k < i}) + 1].revision
               = rp.revisions[i]
        /\ rp.filter = "all" =>
             /\ Len(Items) = Len(rp.revisions)
             /\ \A i \in 1..Len(Items) : Items[i].revision = rp.revisions[i]

\* C12 witness: a filter has just been selected that leaves one of two
\* revisions on the list
C12_Witness ==
  /\ RP
  /\ last.name = "setFilter"
  /\ rp.filter = "deletions"
  /\ Len(rp.revisions) = 2
  /\ Len(Items) = 1
  /\ Items[1].revision = rp.revisions[2]

\* C13: whatever the filter, the total shown is the length of the revisions
\* list and the count of each category is the number of revisions of that
\* category in the whole list; a category has a badge exactly when its
\* count is above zero.
C13_StatsOfWholeList ==
  RP =>
    LET count(t) == Cardinality({i \in 1..Len(rp.revisions) :
                                   rp.revisions[i].revisionType = t})
        typeOf == [insertions |-> "Inserted", deletions |-> "Deleted",
                   moves |-> "Moved", formatting |-> "FormatChanged"]
    IN  /\ stats.total = Len(rp.revisions)
        /\ PanelShown => StatsShown["total"] = Len(rp.revisions)
        /\ \A c \in DOMAIN typeOf :
             /\ stats[c] = count(typeOf[c])
             /\ c \in DOMAIN StatsShown => count(typeOf[c]) > 0
             /\ c \in DOMAIN StatsShown => StatsShown[c] = count(typeOf[c])
             /\ (PanelShown /\ count(typeOf[c]) > 0)
                  => c \in DOMAIN StatsShown

\* C13 witness: a filter hides a revision that the statistics still count
C13_Witness ==
  /\ RP
  /\ rp.filter = "insertions"
  /\ Len(rp.revisions) = 2
  /\ Len(Items) = 1
  /\ StatsShown["total"] = 2
  /\ "deletions" \in DOMAIN StatsShown
  /\ "moves" \notin DOMAIN StatsShown

\* C14 (as stated): a text of at most 100 characters is shown in full
\* without a button; a longer one is shown as its first 100 characters and
\* '...' with 'Show more', or in full with 'Show less'; a click on the
\* button of an item changes that item from one form to the other; and a
\* revision keeps its form when only the filter changes, since its button
\* was not clicked.
C14_TruncatedUntilClicked ==
  [][RP' =>
      LET type(f) == CASE f = "insertions" -> "Inserted"
                       [] f = "deletions" -> "Deleted"
                       [] f = "moves" -> "Moved"
                       [] f = "formatting" -> "FormatChanged"
                       [] f = "all" -> "any"
          want(f) == {i \in 1..Len(rp.revisions) :
                        type(f) = "any"
                        \/ rp.revisions[i].revisionType = type(f)}
          pos(f, i) == Cardinality({k \in want(f) : k <= i})
      IN  /\ \A j \in 1..Len(Items') :
               LET item == Items'[j]
               IN  IF item.revision.text <= 100
                   THEN /\ item.text = [chars |-> item.revision.text,
                                        dots |-> FALSE]
                        /\ item.button = "none"
                   ELSE \/ /\ item.text = [chars |-> 100, dots |-> TRUE]
                           /\ item.button = "Show more"
                        \/ /\ item.text = [chars |-> item.revision.text,
                                           dots |-> FALSE]
                           /\ item.button = "Show less"
          /\ last'.name = "toggleExpanded" =>
               /\ Items'[last'.arg + 1].button # Items[last'.arg + 1].button
               /\ \A j \in 1..Len(Items) :
                    j # last'.arg + 1 => Items'[j] = Items[j]
          /\ last'.name = "setFilter" =>
               \A i \in want(rp.filter) \cap want(rp'.filter) :
                 Items'[pos(rp'.filter, i)].text
                   = Items[pos(rp.filter, i)].text]_vars

\* C15: with toolbar 'top' the toolbar is the first child of the root in
\* every state, and with toolbar 'none' the root has no toolbar child and
\* nothing of a toolbar is on the page.
C15_ToolbarTopOrNone ==
  DV =>
    /\ props.toolbar = "top" => RootChildren[1] = "toolbar"
    /\ props.toolbar = "none" =>
         /\ \A i \in 1..Len(RootChildren) : RootChildren[i] # "toolbar"
         /\ Rendered \cap {"file-input", "clear", "view-tabs",
                            "settings-button", "zoom-controls",
                            "page-controls"} = {}

\* C15 witness: the parent has just moved the toolbar to the top while a
\* document is shown and the settings modal is open
C15_Witness ==
  /\ DV
  /\ last.name = "setToolbarProp"
  /\ props.toolbar = "top"
  /\ showSettings
  /\ Truthy(html)
  /\ Len(RootChildren) = 3

\* C16 (as stated): with toolbar 'bottom' the toolbar is the last child of
\* the root in every state.
C16_ToolbarLast ==
  (DV /\ props.toolbar = "bottom")
    => RootChildren[Len(RootChildren)] = "toolbar"

\* C16 (amended): with toolbar 'bottom' the toolbar is the child right
\* after the content area in every state; it is the last child exactly
\* while the settings modal is closed, and while the modal is open the
\* modal is the one child after it.
C16_ToolbarAfterContent ==
  (DV /\ props.toolbar = "bottom") =>
    /\ RootChildren[1] = "content"
    /\ RootChildren[2] = "toolbar"
    /\ RootChildren[Len(RootChildren)] = "toolbar" <=> ~showSettings
    /\ showSettings => RootChildren = <<"content", "toolbar", "settings-modal">>

\* C16 witness: a bottom toolbar with the settings modal open over a
\* document
C16_Witness ==
  /\ DV
  /\ props.toolbar = "bottom"
  /\ showSettings
  /\ Truthy(html)
  /\ last.name = "openSettings"

\* C17 (as stated): the modal opens only by the settings button and closes
\* only by its close button, the overlay or Apply & Close, each of which
\* closes it; a click inside the modal body leaves it open; and it is never
\* open while showSettingsButton is false or toolbar is 'none'.
C17_ModalOpenClose ==
  [][DV =>
      /\ (~showSettings /\ showSettings') => last'.name = "openSettings"
      /\ (showSettings /\ ~showSettings')
           => last'.name \in {"closeSettings", "applyAndClose"}
      /\ last'.name = "openSettings" => showSettings'
      /\ last'.name \in {"closeSettings", "applyAndClose"} => ~showSettings'
      /\ last'.name = "clickModalBody" => showSettings'
      /\ showSettings' =>
           (props'.showSettingsButton /\ props'.toolbar # "none")]_vars

\* C18 (as stated): in uncontrolled mode a Clear leaves file, html and
\* error null, fileName empty, page 1 of 0, no revisions, the document
\* view and no metadata, calls onFileChange(null) and nothing else, leaves
\* the settings as they were and shows the placeholder; and while no file
\* is selected no conversion is started.
C18_ClearShowsPlaceholder ==
  [][(DV /\ controlledFile = Undef /\ controlledHtml = Undef) =>
      /\ last'.name = "handleClear" =>
           /\ file' = Null /\ html' = Null /\ error' = Null
           /\ fileName' = ""
           /\ currentPage' = 1 /\ totalPages' = 0
           /\ revisions' = <<>>
           /\ viewMode' = "document"
           /\ documentMetadata' = Null
           /\ out' = <<Callback("onFileChange", Null)>>
           /\ settings' = settings
           /\ "placeholder" \in Rendered'
      /\ (file = Null /\ last'.name # "handleFileChange") =>
           /\ Calls("onConversionStart")' = <<>>
           /\ BagCardinality(convs') <= BagCardinality(convs)]_vars

\* C18 (amended): as stated, except that the placeholder is shown after a
\* Clear exactly when the engine has not failed to initialise; when it has,
\* the initialisation error is on the page instead.
C18_ClearResetsDocument ==
  [][(DV /\ controlledFile = Undef /\ controlledHtml = Undef) =>
      /\ last'.name = "handleClear" =>
           /\ file' = Null /\ html' = Null /\ error' = Null
           /\ fileName' = ""
           /\ currentPage' = 1 /\ totalPages' = 0
           /\ revisions' = <<>>
           /\ viewMode' = "document"
           /\ documentMetadata' = Null
           /\ out' = <<Callback("onFileChange", Null)>>
           /\ settings' = settings
           /\ "placeholder" \in Rendered' <=> ~initError'
           /\ initError' => "init-error" \in Rendered'
      /\ (file = Null /\ last'.name # "handleFileChange") =>
           /\ file' = Null
           /\ Calls("onConversionStart")' = <<>>
           /\ BagCardinality(convs') <= BagCardinality(convs)]_vars

\* C18 witness: a viewer whose settings are no longer the defaults has just
\* been cleared and shows the placeholder
C18_Witness ==
  /\ DV
  /\ controlledFile = Undef /\ controlledHtml = Undef
  /\ last.name = "handleClear"
  /\ settings # mergedDefaults
  /\ "placeholder" \in Rendered
  /\ viewMode = "document"

\* C19 (as stated): no conversion is started while the engine is not
\* ready; a step that makes the engine ready while a file is available,
\* with no html prop and no html held, makes the effect due, and the effect
\* then starts one conversion of that file; and that is the only one
\* started automatically: the effect does not start another one of the
\* same file because the first has failed.
C19_OneConversionOnceReady ==
  [][DV =>
      /\ ~isReady =>
           /\ Calls("onConversionStart")' = <<>>
           /\ convs' = convs
      /\ (~isReady /\ isReady' /\ Truthy(file') /\ ~Truthy(html')
           /\ controlledHtml' = Undef) => EffectDue'
      /\ last'.name = "autoConvert" =>
           /\ Len(Calls("onConversionStart")') = 1
           /\ BagCardinality(convs') = BagCardinality(convs) + 1
           /\ \E c \in BagToSet(convs') :
                /\ CopiesIn(c, convs') = CopiesIn(c, convs) + 1
                /\ c.file = file
                /\ ~c.retry]_vars


\* C20: every worker of the viewer is terminated.  A step that cleans up
\* the worker effect (another useWorker or wasmBasePath, or the unmount)
\* while a worker is held terminates that worker and resets worker and
\* workerReady; a worker whose creation resolves after the cleanup of its
\* run is terminated in that step and is not installed; after every step
\* the only worker that is not terminated is the one held, and once the
\* viewer is unmounted no worker is held and every worker is terminated.
C20_WorkersTerminated ==
  [][ /\ ( /\ last'.name \in {"setUseWorkerProp", "setWasmBasePathProp",
                               "unmount"}
           /\ props.useWorker /\ workerSupported
           /\ workerRef # 0 )
         => ( /\ workerRef \in terminated'
              /\ workerRef' = 0
              /\ worker' = Null
              /\ workerReady' = FALSE )
      /\ last'.name = "staleCreated"
         => ( /\ made' = made + 1
              /\ made' \in terminated'
              /\ workerRef' = workerRef
              /\ worker' = worker
              /\ workerReady' = workerReady )
      /\ (1..made') \ terminated' \subseteq {workerRef'}
      /\ workerRef' \notin terminated'
      /\ (worker' # Null) <=> (workerRef' # 0)
      /\ mounted' = "unmounted"
         => (workerRef' = 0 /\ (1..made') \subseteq terminated')
    ]_vars

\* A worker is held, after the worker of a run that was cleaned up has
\* been created and terminated
C20_Witness ==
  /\ last.name = "staleCreated"
  /\ workerRef # 0
  /\ made = MaxWorkers
  /\ terminated = {made}


\* C21 (as stated): an attempt to add an annotation that fails changes
\* nothing but the form's error.  When the validation fails (no label or
\* search text, or no document loaded) addError is set to its message, the
\* engine is not called and every other state cell is as it was.  When
\* addAnnotation resolves without success, or an engine call of the
\* attempt rejects, addError is a message, isAdding is false, the add form
\* is as it was, and the attempt has set none of documentBytes, the
\* annotations and html, in this step or in an earlier one.
C21_FailedAddChangesNothing ==
  [][ /\ (last'.name = "handleAddAnnotation" /\ ~av'.isAdding)
         => ( /\ av'.addError \in {"Label and search text are required",
                                   "No document loaded"}
              /\ av' = [av EXCEPT !.addError = av'.addError]
              /\ out' = NoOut
              /\ avq' = avq )
      /\ ( \/ last'.name = "addReject"
           \/ /\ last'.name = "addResolve"
              /\ ~av'.isAdding
              /\ av'.addError # Null )
         => \A c \in BagToSet(avq) :
              c.op = "add"
              => ( /\ av'.addError # Null
                   /\ ~av'.isAdding
                   /\ av'.showAddForm = av.showAddForm
                   /\ c.wrote = {}
                   /\ av'.documentBytes = av.documentBytes
                   /\ av'.annotations = av.annotations
                   /\ av'.html = av.html )
    ]_vars

====
